---- MODULE Spec2Model ----
(***************************************************************************)
(* TokenRefreshManager (src/src/components/WatchRoomProvider.tsx:315-513): *)
(* the window.fetch wrapper, the expiry policy shouldRefreshToken and the  *)
(* single-flight renewal refreshToken, run by cooperative tasks that       *)
(* suspend only at awaits.  Every action is one synchronous stretch of the *)
(* code, from one await (or the call) to the next.  Init is the state      *)
(* right after the effect has installed the wrapper in a cookie session.   *)
(* The renewal and logout calls of lines 338, 358 and 396 go through       *)
(* window.fetch; the wrapper hands their urls, which are on its skip list, *)
(* to the original function at once, so they are calls of the original.    *)
(* A redirect assigns window.location.href; the tasks already running are  *)
(* followed beyond it.                                                     *)
(***************************************************************************)
EXTENDS Integers, Sequences, FiniteSets

(* ------------------------------ bounds --------------------------------- *)

\* Date.now() is read from 1..MaxTime
MaxTime == 4
\* fire-and-forget logout chains of shouldRefreshToken that can be pending
MaxPolicyTasks == 1
\* SpecPolicy: timestamps and instants range over 1..MaxInstant
MaxInstant == 5
\* SpecInstall: the effect of TokenRefreshManager runs at most MaxMounts times
MaxMounts == 3
\* SpecParse: the username of a credential record has at most MaxName
\* characters
MaxName == 2
\* SpecConfig: the config-loading effect of WatchRoomProvider runs at most
\* MaxRuns times
MaxRuns == 3

\* the cooperative tasks that can be inside the wrapper at once: two, so
\* that a call can arrive at every point of another call
Callers == {1, 2}
\* room for one promise per task and the one the handle holds
PromiseIds == 1..(Cardinality(Callers) + 1)

(* --------------------------- program constants ------------------------- *)

\* TOKEN_CONFIG of '@/lib/refresh-token', in units of five minutes
ACCESS_TOKEN_AGE == 3
RENEWAL_THRESHOLD == 2

(* ------------------------------ strings -------------------------------- *)

\* String.prototype.includes on strings held as sequences of characters
Includes(s, f) ==
    \E i \in 0..(Len(s) - Len(f)) : \A j \in 1..Len(f) : s[i + j] = f[j]

URL_REFRESH == <<"/", "a", "p", "i", "/", "a", "u", "t", "h", "/", "r", "e", "f", "r", "e", "s", "h">>
URL_LOGIN == <<"/", "a", "p", "i", "/", "l", "o", "g", "i", "n">>
URL_LOGOUT == <<"/", "a", "p", "i", "/", "l", "o", "g", "o", "u", "t">>
URL_REGISTER == <<"/", "a", "p", "i", "/", "r", "e", "g", "i", "s", "t", "e", "r">>
URL_OIDC == <<"/", "a", "p", "i", "/", "a", "u", "t", "h", "/", "o", "i", "d", "c">>

M_UNAUTHORIZED == <<"U", "n", "a", "u", "t", "h", "o", "r", "i", "z", "e", "d">>
M_REFRESH_EXPIRED == <<"R", "e", "f", "r", "e", "s", "h", " ", "t", "o", "k", "e", "n", " ", "e", "x", "p", "i", "r", "e", "d">>
M_ACCESS_EXPIRED == <<"A", "c", "c", "e", "s", "s", " ", "t", "o", "k", "e", "n", " ", "e", "x", "p", "i", "r", "e", "d">>

\* the requests callers make: /api/auth/refresh, /api/login?redirect=/,
\* /api/logout, /api/register, /api/auth/oidc/callback, /api/favorites
Urls == <<
    <<"/", "a", "p", "i", "/", "a", "u", "t", "h", "/", "r", "e", "f", "r", "e", "s", "h">>,
    <<"/", "a", "p", "i", "/", "l", "o", "g", "i", "n", "?", "r", "e", "d", "i", "r", "e", "c", "t", "=", "/">>,
    <<"/", "a", "p", "i", "/", "l", "o", "g", "o", "u", "t">>,
    <<"/", "a", "p", "i", "/", "r", "e", "g", "i", "s", "t", "e", "r">>,
    <<"/", "a", "p", "i", "/", "a", "u", "t", "h", "/", "o", "i", "d", "c", "/", "c", "a", "l", "l", "b", "a", "c", "k">>,
    <<"/", "a", "p", "i", "/", "f", "a", "v", "o", "r", "i", "t", "e", "s">> >>
UrlIds == 1..Len(Urls)

\* response bodies of a 401: {"error":"Unauthorized"}, Refresh token expired,
\* Access token expired, Forbidden, unauthorized
Bodies == <<
    <<"{", "\"", "e", "r", "r", "o", "r", "\"", ":", "\"", "U", "n", "a", "u", "t", "h", "o", "r", "i", "z", "e", "d", "\"", "}">>,
    <<"R", "e", "f", "r", "e", "s", "h", " ", "t", "o", "k", "e", "n", " ", "e", "x", "p", "i", "r", "e", "d">>,
    <<"A", "c", "c", "e", "s", "s", " ", "t", "o", "k", "e", "n", " ", "e", "x", "p", "i", "r", "e", "d">>,
    <<"F", "o", "r", "b", "i", "d", "d", "e", "n">>,
    <<"u", "n", "a", "u", "t", "h", "o", "r", "i", "z", "e", "d">> >>
BodyIds == 1..Len(Bodies)

\* the characters U+0020..U+007E in code order; the backslash is written
\* "bsl" and the grave accent "grv"
Printable == <<
    " ", "!", "\"", "#", "$", "%", "&", "'", "(", ")", "*", "+", ",", "-", ".", "/",
    "0", "1", "2", "3", "4", "5", "6", "7", "8", "9", ":", ";", "<", "=", ">", "?",
    "@", "A", "B", "C", "D", "E", "F", "G", "H", "I", "J", "K", "L", "M", "N", "O",
    "P", "Q", "R", "S", "T", "U", "V", "W", "X", "Y", "Z", "[", "bsl", "]", "^", "_",
    "grv", "a", "b", "c", "d", "e", "f", "g", "h", "i", "j", "k", "l", "m", "n", "o",
    "p", "q", "r", "s", "t", "u", "v", "w", "x", "y", "z", "{", "|", "}", "~" >>

\* the code of a printable character, and the character of a code; the
\* control characters are all written "ctl"
Ord(ch) == 31 + (CHOOSE i \in 1..Len(Printable) : Printable[i] = ch)
Chr(code) == IF code >= 32 /\ code <= 126 THEN Printable[code - 31] ELSE "ctl"

HexDigits == <<"0", "1", "2", "3", "4", "5", "6", "7", "8", "9",
               "A", "B", "C", "D", "E", "F">>
LowerHex == <<"a", "b", "c", "d", "e", "f">>
IsHex(ch) == (\E i \in 1..16 : HexDigits[i] = ch) \/ (\E i \in 1..6 : LowerHex[i] = ch)
HexVal(ch) ==
    IF \E i \in 1..16 : HexDigits[i] = ch
    THEN (CHOOSE i \in 1..16 : HexDigits[i] = ch) - 1
    ELSE (CHOOSE i \in 1..6 : LowerHex[i] = ch) + 9

\* the characters encodeURIComponent leaves as they are: digits, letters
\* and the marks - _ . ! ~ * ( ) and the apostrophe
Unreserved(ch) ==
    \/ Ord(ch) >= 48 /\ Ord(ch) <= 57
    \/ Ord(ch) >= 65 /\ Ord(ch) <= 90
    \/ Ord(ch) >= 97 /\ Ord(ch) <= 122
    \/ Ord(ch) \in {45, 95, 46, 33, 126, 42, 39, 40, 41}

\* the escape of a character, and of the three places an input character
\* can take in the output the one numbered pos (empty when it takes fewer)
Escape(ch) == <<"%", HexDigits[(Ord(ch) \div 16) + 1], HexDigits[(Ord(ch) % 16) + 1]>>
EncodedAt(ch, pos) ==
    IF Unreserved(ch) THEN (IF pos = 1 THEN ch ELSE "") ELSE Escape(ch)[pos]

NotEmpty(ch) == ch # ""

\* encodeURIComponent on a string of printable characters
EncodeURIComponent(s) ==
    SelectSeq([j \in 1..(3 * Len(s)) |-> EncodedAt(s[(j + 2) \div 3], ((j - 1) % 3) + 1)],
              NotEmpty)

\* an escape starts at place i of s and is well formed: two hexadecimal
\* digits that make a byte below 80
EscapeAt(s, i) == s[i] = "%"
GoodEscapeAt(s, i) ==
    /\ i + 2 <= Len(s)
    /\ IsHex(s[i + 1]) /\ IsHex(s[i + 2])
    /\ 16 * HexVal(s[i + 1]) + HexVal(s[i + 2]) < 128

\* what place i of s gives to the decoded text: the character of an escape
\* at its percent sign, nothing at its two digits, else the character itself
DecodedAt(s, i) ==
    IF EscapeAt(s, i) THEN Chr(16 * HexVal(s[i + 1]) + HexVal(s[i + 2]))
    ELSE IF (i > 1 /\ EscapeAt(s, i - 1)) \/ (i > 2 /\ EscapeAt(s, i - 2)) THEN ""
    ELSE s[i]

\* decodeURIComponent: ok = FALSE is the URIError of an escape that is cut
\* short, is not hexadecimal, or is a byte above 7F (no text here holds a
\* UTF-8 sequence of several bytes)
DecodeURIComponent(s) ==
    IF \A i \in 1..Len(s) : EscapeAt(s, i) => GoodEscapeAt(s, i)
    THEN [ok |-> TRUE, text |-> SelectSeq([i \in 1..Len(s) |-> DecodedAt(s, i)], NotEmpty)]
    ELSE [ok |-> FALSE, text |-> <<>>]

\* statuses the server answers a request and the renewal call with
Statuses == {200, 401, 403}
RenewalStatuses == {200, 401, 403, 500}

(* --------------------------- pure functions ---------------------------- *)

IsExcludedDropsOidc(url) ==
    \/ Includes(url, URL_REFRESH)
    \/ Includes(url, URL_LOGIN)
    \/ Includes(url, URL_LOGOUT)
    \/ Includes(url, URL_REGISTER)

\* the skip list of the wrapper
IsExcluded(url) ==
    \/ Includes(url, URL_REFRESH)
    \/ Includes(url, URL_LOGIN)
    \/ Includes(url, URL_LOGOUT)
    \/ Includes(url, URL_REGISTER)
    \/ Includes(url, URL_OIDC)

HasMarkerAnyBody(text) == TRUE

\* the marker test on the 401 body
HasMarker(text) ==
    \/ Includes(text, M_UNAUTHORIZED)
    \/ Includes(text, M_REFRESH_EXPIRED)
    \/ Includes(text, M_ACCESS_EXPIRED)

\* response.ok
ResponseOk(status) == status >= 200 /\ status <= 299

\* An AuthInfo as getAuthInfoFromBrowserCookie returns it: present = FALSE is
\* null; an optional field is <<>> (undefined) or <<v>>.
NullInfo == [present |-> FALSE, timestamp |-> <<>>, refreshExpires |-> <<>>]
Info(ts, re) == [present |-> TRUE, timestamp |-> ts, refreshExpires |-> re]

\* !field of JavaScript on an optional number
Falsy(f) == f = <<>> \/ f[1] = 0

\* the guard of line 386
NoRenewalInfo(authInfo) ==
    \/ ~authInfo.present
    \/ Falsy(authInfo.timestamp)
    \/ Falsy(authInfo.refreshExpires)

\* line 393: the refresh token has expired, Session Termination is started
RefreshExpired(authInfo, now) ==
    /\ ~NoRenewalInfo(authInfo)
    /\ now >= authInfo.refreshExpires[1]

ShouldRefreshTokenInclusive(authInfo, now) ==
    IF NoRenewalInfo(authInfo) THEN FALSE
    ELSE IF now >= authInfo.refreshExpires[1] THEN FALSE
    ELSE LET age == now - authInfo.timestamp[1]
             remaining == ACCESS_TOKEN_AGE - age
         IN  remaining <= RENEWAL_THRESHOLD

\* the value shouldRefreshToken returns
ShouldRefreshToken(authInfo, now) ==
    IF NoRenewalInfo(authInfo) THEN FALSE
    ELSE IF now >= authInfo.refreshExpires[1] THEN FALSE
    ELSE LET age == now - authInfo.timestamp[1]
             remaining == ACCESS_TOKEN_AGE - age
         IN  remaining < RENEWAL_THRESHOLD

OnLoginPageNever(path) == FALSE

\* lines 352, 450, 476: window.location.pathname === '/login'
OnLoginPage(path) == path = "/login"

RenewalRejectedAnyFailure(status) == TRUE

\* line 350: the renewal endpoint says the session is invalid
RenewalRejected(status) == status = 401 \/ status = 403

ClearsAlways(outcome) == TRUE

\* lines 362-366, 399-403, 486-490: the catch of the logout call runs
\* clearAuthCookie when the call rejected; a call that was answered, with
\* whatever status, is not looked at
ClearsCookie(outcome) == outcome = "rejected"

\* window.location.pathname as text (window.location.search is empty)
PathText(path) == IF path = "/login" THEN <<"/", "l", "o", "g", "i", "n">> ELSE <<"/">>

LOGIN_REDIRECT == <<"/", "l", "o", "g", "i", "n", "?", "r", "e", "d", "i", "r", "e", "c", "t", "=">>

\* lines 367, 404, 491: the url assigned to window.location.href on each
\* route
Hrefs == [path \in {"/", "/login"} |->
             LOGIN_REDIRECT \o EncodeURIComponent(PathText(path))]
LoginHref(path) == Hrefs[path]

ReplaysAlways(refreshed) == TRUE

\* line 467: if (refreshed)
Replays(refreshed) == refreshed = "true"

JoinsUnlessFlag(flag, handle) == ~flag /\ handle # 0

JoinsNever(flag, handle) == FALSE

\* line 330: a renewal is pending, hand out its promise
JoinsPending(flag, handle) == flag /\ handle # 0

KeepsHandle(flag, handle) == [isRefreshing |-> flag, refreshPromise |-> handle]

ClearsFlagOnly(flag, handle) == [isRefreshing |-> FALSE, refreshPromise |-> handle]

\* lines 374-377: the finally block of the renewal
Finally(flag, handle) == [isRefreshing |-> FALSE, refreshPromise |-> 0]

RenewalErrorRejects == "rejected"

\* lines 371-373: a network error of the renewal call is caught
RenewalError == "false"

(* ------------------------------- state --------------------------------- *)

VARIABLES
    isRefreshing,     \* line 324
    refreshPromise,   \* line 325: 0 is null, else the id of a promise
    promises,         \* the promises refreshToken has created, by id
    call,             \* each task's position in the wrapper and its locals
    cookie,           \* what getAuthInfoFromBrowserCookie() returns
    pathname,         \* window.location.pathname
    href,             \* what window.location.href was last assigned, <<>> if never
    policyLogouts,    \* logout calls of shouldRefreshToken that are outstanding
    invalidSeen,      \* history: a session-invalid condition has been observed
    policyPhase,      \* the logout chain of shouldRefreshToken whose callbacks run
    pInfo, pNow, pOut, \* SpecPolicy: one evaluation of the expiry policy
    storageType,      \* SpecInstall: RUNTIME_CONFIG?.STORAGE_TYPE, <<>> if undefined
    windowFetch,      \* SpecInstall: the function window.fetch holds
    originalFetch,    \* SpecInstall: line 420
    effect,           \* SpecInstall: the effect run and what it returned
    readType,         \* SpecInstall: the STORAGE_TYPE the effect run read
    mounts,           \* SpecInstall: effect runs so far
    parseIn,          \* SpecParse: the argument of parseAuthInfo
    parseRec,         \* SpecParse: the record the argument was made of, if any
    parseK,           \* SpecParse: how many times the argument was percent-encoded
    parseOut,         \* SpecParse: what parseAuthInfo returned
    loggedInCookie,   \* SpecConfig: the auth cookie holds a username
    isLoggedIn,       \* SpecConfig: line 84, the state of the last render
    provider,         \* SpecConfig: WatchRoomProvider is mounted or unmounted
    effectRuns,       \* SpecConfig: runs of the config-loading effect so far
    runs              \* SpecConfig: the loadConfig() of each effect run

vars == <<isRefreshing, refreshPromise, promises, call, cookie, pathname,
          href, policyLogouts, policyPhase, invalidSeen, pInfo, pNow, pOut,
          storageType, windowFetch, originalFetch, effect, readType, mounts,
          parseIn, parseRec, parseK, parseOut,
          loggedInCookie, isLoggedIn, provider, effectRuns, runs>>
policyVars == <<pInfo, pNow, pOut>>
installVars == <<storageType, windowFetch, originalFetch, effect, readType, mounts>>
parseVars == <<parseIn, parseRec, parseK, parseOut>>
configVars == <<loggedInCookie, isLoggedIn, provider, effectRuns, runs>>
otherVars == <<policyVars, installVars, parseVars, configVars>>
mainVars == <<isRefreshing, refreshPromise, promises, call, cookie, pathname,
              href, policyLogouts, policyPhase, invalidSeen>>

NoVerdict == [done |-> FALSE, due |-> FALSE, term |-> FALSE]

FreeSlot == [st |-> "free", by |-> 0, status |-> 0, term |-> "no", onLogin |-> FALSE,
             logout |-> "none"]

IdleCall == [pc |-> "idle", skipUrl |-> FALSE, consulted |-> FALSE, expired |-> FALSE,
             polTerm |-> FALSE, awaiting |-> 0, sent |-> 0, status1 |-> 0,
             login1 |-> FALSE, marker |-> "none", refreshed |-> "none",
             status2 |-> 0, login2 |-> FALSE, termReplay |-> FALSE,
             logout |-> "none", ret |-> "none"]

CompleteInfo == Info(<<1>>, <<MaxTime>>)
CookieValues == {NullInfo, Info(<<1>>, <<>>), CompleteInfo}

Pending(p) == p.st \in {"fetching", "logout"}
ResumesEarly(p) == p.st # "free"

ResumesOnTrue(p) == p.st = "true"

\* the promise of a renewal has settled: an await of it resumes
Settled(p) == p.st \in {"true", "false", "rejected"}

\* The logout call of shouldRefreshToken has settled and the callbacks of
\* its chain have not all run yet.  They run right after the event that
\* settled the call, before any other event or task is served.
Resuming == policyPhase # "none"

\* a JSON value: null, a credential record, a number, a string, true, false
JsonValue(kind, username, ts, re, num, str) ==
    [kind |-> kind, username |-> username, timestamp |-> ts, refreshExpires |-> re,
     num |-> num, str |-> str]
JsonNull == JsonValue("null", <<>>, 0, 0, 0, <<>>)
JsonObject(username, ts, re) == JsonValue("object", username, ts, re, 0, <<>>)
JsonNumber(n) == JsonValue("number", <<>>, 0, 0, n, <<>>)
JsonString(str) == JsonValue("string", <<>>, 0, 0, 0, str)
JsonTrue == JsonValue("true", <<>>, 0, 0, 0, <<>>)
JsonFalse == JsonValue("false", <<>>, 0, 0, 0, <<>>)

\* the argument of parseAuthInfo: null, undefined or a string
NoInput == [kind |-> "undefined", text |-> <<>>]
StringInput(text) == [kind |-> "string", text |-> text]

\* parseAuthInfo has not been called
NothingParsed ==
    /\ parseIn = NoInput
    /\ parseRec = JsonNull
    /\ parseK = 0
    /\ parseOut = [done |-> FALSE, value |-> JsonNull]

\* loadConfig() of an effect run: where it stands, the isLoggedIn its
\* closure holds, the config it has read, whether the cleanup of its run has
\* called watchRoom.disconnect(), its watchRoom.connect calls, and whether
\* one of them came after that cleanup
NoRun == [pc |-> "none", isLoggedIn |-> FALSE, enabled |-> FALSE,
          serverType |-> "internal", cleaned |-> FALSE, connects |-> 0,
          late |-> FALSE]

\* lines 171-173, 254: the effect run n calls loadConfig(), which runs up
\* to the await of fetch('/api/server-config')
StartRun(rs, n, loggedIn) ==
    [rs EXCEPT ![n] = [NoRun EXCEPT !.pc = "fetchConfig", !.isLoggedIn = loggedIn]]

\* WatchRoomProvider has mounted with the cookie c: isLoggedIn is false in
\* the first render (line 84), checkLoginStatus() has read the cookie (its
\* state update is not rendered yet) and the first effect run has called
\* loadConfig()
ProviderMounted(c) ==
    /\ loggedInCookie = c
    /\ isLoggedIn = FALSE
    /\ provider = "mounted"
    /\ effectRuns = 1
    /\ runs = StartRun([n \in 1..MaxRuns |-> NoRun], 1, FALSE)

\* the effect has run once in a cookie session and installed the wrapper
InstalledInit ==
    /\ storageType = <<"redis">>
    /\ windowFetch = "wrapper"
    /\ originalFetch = "native"
    /\ effect = "installed"
    /\ readType = <<"redis">>
    /\ mounts = 1

Init ==
    /\ isRefreshing = FALSE
    /\ refreshPromise = 0
    /\ promises = [i \in PromiseIds |-> FreeSlot]
    /\ call = [c \in Callers |-> IdleCall]
    /\ cookie \in CookieValues
    /\ pathname \in {"/", "/login"}
    /\ href = <<>>
    /\ policyLogouts = 0
    /\ policyPhase = "none"
    /\ invalidSeen = FALSE
    /\ pInfo = NullInfo /\ pNow = 1 /\ pOut = NoVerdict
    /\ InstalledInit
    /\ NothingParsed
    /\ ProviderMounted(FALSE)

(* ----------------------------- refreshToken ---------------------------- *)

FreeIds == {i \in PromiseIds : promises[i].st = "free"}
NewId == CHOOSE i \in FreeIds : \A j \in FreeIds : i <= j

\* refreshToken() can run: it joins, or there is room for one more promise
CanRefresh == JoinsPending(isRefreshing, refreshPromise) \/ FreeIds # {}

\* refreshToken() called by task c, up to the await of the renewal call: the
\* new flag, handle and promises, and the id of the promise handed to c.  The
\* renewal call goes through window.fetch, whose wrapper hands
\* /api/auth/refresh to the original function at once (lines 428-436).
refreshToken(c) ==
    IF JoinsPending(isRefreshing, refreshPromise)
    THEN [flag |-> isRefreshing, handle |-> refreshPromise,
          proms |-> promises, id |-> refreshPromise]
    ELSE [flag |-> TRUE, handle |-> NewId,
          proms |-> [promises EXCEPT ![NewId] =
                        [FreeSlot EXCEPT !.st = "fetching", !.by = c]],
          id |-> NewId]

\* the async body of refreshToken returns res: the promise settles and the
\* finally block runs in the same synchronous stretch
Settle(p, res, status, term) ==
    LET f == Finally(isRefreshing, refreshPromise)
    IN  /\ promises' = [promises EXCEPT ![p] =
                            [@ EXCEPT !.st = res, !.status = status, !.term = term,
                                      !.onLogin = IF term = "fired" THEN @
                                                  ELSE status \in {401, 403}
                                                       /\ pathname = "/login"]]
        /\ isRefreshing' = f.isRefreshing
        /\ refreshPromise' = f.refreshPromise

\* a settled promise nobody awaits or holds any more is dropped
Collect(c) ==
    LET p == call[c].awaiting
    IN  IF /\ \A d \in Callers \ {c} : call[d].awaiting # p
           /\ refreshPromise # p
        THEN [promises EXCEPT ![p] = FreeSlot]
        ELSE promises

\* the renewal call is answered with status s; an ok answer carries the
\* renewed cookie
RenewalResponse(p, s) ==
    /\ ~Resuming
    /\ promises[p].st = "fetching"
    /\ IF ResponseOk(s)
       THEN /\ Settle(p, "true", s, "no")
            /\ cookie' = CompleteInfo
       ELSE IF RenewalRejected(s)
       THEN IF OnLoginPage(pathname)
            THEN /\ Settle(p, "false", s, "skipped")
                 /\ UNCHANGED cookie
            ELSE /\ promises' = [promises EXCEPT ![p] =
                                    [@ EXCEPT !.st = "logout", !.status = s,
                                              !.term = "fired",
                                              !.onLogin = (pathname = "/login")]]
                 /\ UNCHANGED <<isRefreshing, refreshPromise, cookie>>
       ELSE /\ Settle(p, "false", s, "no")
            /\ UNCHANGED cookie
    /\ UNCHANGED <<call, pathname, href, policyLogouts, policyPhase, otherVars>>
    /\ invalidSeen' = (invalidSeen \/ s \in {401, 403})

\* the renewal call fails at the network level
RenewalNetworkError(p) ==
    /\ ~Resuming
    /\ promises[p].st = "fetching"
    /\ Settle(p, RenewalError, 0, "no")
    /\ UNCHANGED <<call, cookie, pathname, href, policyLogouts, policyPhase, invalidSeen, otherVars>>

\* what a logout call came to: it was answered, with whatever status, or
\* it rejected
LogoutOutcome(ok) == IF ok THEN "resolved" ELSE "rejected"

\* the logout call of the renewal settles and the renewal resumes:
\* clearAuthCookie in the catch, the redirect, return false, finally
RenewalLogoutSettle(p, ok) ==
    /\ ~Resuming
    /\ promises[p].st = "logout"
    /\ cookie' = IF ClearsCookie(LogoutOutcome(ok)) THEN NullInfo ELSE cookie
    /\ href' = LoginHref(pathname)
    /\ LET f == Finally(isRefreshing, refreshPromise)
       IN  /\ promises' = [promises EXCEPT ![p] =
                               [@ EXCEPT !.st = "false",
                                         !.logout = IF ok THEN "resolved" ELSE "rejected"]]
           /\ isRefreshing' = f.isRefreshing
           /\ refreshPromise' = f.refreshPromise
    /\ UNCHANGED <<call, pathname, policyLogouts, policyPhase, invalidSeen, otherVars>>

(* --------------------------- the fetch wrapper ------------------------- *)

\* whether the body text contains one of the three markers of line 462
MarkerIn(text) ==
    IF \E m \in {M_UNAUTHORIZED, M_REFRESH_EXPIRED, M_ACCESS_EXPIRED} : Includes(text, m)
    THEN "yes" ELSE "no"

\* the url contains one of the fragments of lines 429-433
HasSkipFragment(url) ==
    \E f \in {URL_REFRESH, URL_LOGIN, URL_LOGOUT, URL_REGISTER, URL_OIDC} :
        Includes(url, f)

\* the record has both fields and the instant is at or past refreshExpires
ExpiredRecord(authInfo, now) ==
    /\ authInfo.present
    /\ authInfo.timestamp # <<>>
    /\ authInfo.refreshExpires # <<>>
    /\ now >= authInfo.refreshExpires[1]

\* window.fetch(input, init) by task c with url Urls[u], Date.now() = now, up
\* to its first await: the skip list, shouldRefreshToken() (which starts the
\* logout chain when the refresh token has expired), refreshToken() when
\* renewal is due, else the request itself.
Call(c, u, now) ==
    /\ ~Resuming
    /\ call[c].pc = "idle"
    /\ IF IsExcluded(Urls[u])
       THEN /\ call' = [call EXCEPT ![c] =
                          [IdleCall EXCEPT !.pc = "delegated",
                                           !.skipUrl = HasSkipFragment(Urls[u]),
                                           !.sent = 1]]
            /\ UNCHANGED <<isRefreshing, refreshPromise, promises, policyLogouts>>
       ELSE LET authInfo == cookie
                logout == RefreshExpired(authInfo, now)
                started == [IdleCall EXCEPT !.skipUrl = HasSkipFragment(Urls[u]),
                                            !.consulted = TRUE,
                                            !.expired = ExpiredRecord(authInfo, now),
                                            !.polTerm = logout]
            IN  /\ logout => policyLogouts < MaxPolicyTasks
                /\ policyLogouts' = IF logout THEN policyLogouts + 1 ELSE policyLogouts
                /\ IF ShouldRefreshToken(authInfo, now)
                   THEN /\ CanRefresh
                        /\ LET r == refreshToken(c)
                           IN  /\ isRefreshing' = r.flag
                               /\ refreshPromise' = r.handle
                               /\ promises' = r.proms
                               /\ call' = [call EXCEPT ![c] =
                                             [started EXCEPT !.pc = "awaitProactive",
                                                             !.awaiting = r.id]]
                   ELSE /\ call' = [call EXCEPT ![c] =
                                      [started EXCEPT !.pc = "fetch1", !.sent = 1]]
                        /\ UNCHANGED <<isRefreshing, refreshPromise, promises>>
    /\ UNCHANGED <<cookie, pathname, href, policyPhase, otherVars>>
    /\ invalidSeen' = (invalidSeen \/ (~HasSkipFragment(Urls[u]) /\ ExpiredRecord(cookie, now)))

\* the request leaves through the original function
Send(rec) == [rec EXCEPT !.pc = "fetch1", !.sent = 1, !.awaiting = 0]

\* the wrapper returns (or rejects) with what
Finish(rec, what) == [rec EXCEPT !.pc = "done", !.ret = what, !.awaiting = 0]

\* the proactive await of refreshToken() resumes; its value is dropped and
\* the request is sent
ProactiveResume(c) ==
    /\ ~Resuming
    /\ call[c].pc = "awaitProactive"
    /\ Settled(promises[call[c].awaiting])
    /\ call' = [call EXCEPT ![c] =
                  IF promises[call[c].awaiting].st = "rejected"
                  THEN Finish(@, "error")
                  ELSE Send(@)]
    /\ promises' = Collect(c)
    /\ UNCHANGED <<isRefreshing, refreshPromise, cookie, pathname, href,
                   policyLogouts, policyPhase, invalidSeen, otherVars>>

\* originalFetch(input, init) rejects: a delegated call and the first
\* request pass the error on
FetchError(c) ==
    /\ ~Resuming
    /\ call[c].pc \in {"delegated", "fetch1"}
    /\ call' = [call EXCEPT ![c] = Finish(@, "error")]
    /\ UNCHANGED <<isRefreshing, refreshPromise, promises, cookie, pathname,
                   href, policyLogouts, policyPhase, invalidSeen, otherVars>>

\* a delegated call is answered: the response is returned as it is
DelegatedResponse(c, s) ==
    /\ ~Resuming
    /\ call[c].pc = "delegated"
    /\ call' = [call EXCEPT ![c] = Finish([@ EXCEPT !.status1 = s], "resp1")]
    /\ UNCHANGED <<isRefreshing, refreshPromise, promises, cookie, pathname,
                   href, policyLogouts, policyPhase, invalidSeen, otherVars>>

\* the first request is answered with status s: anything but a 401, and a
\* 401 on the login page, is returned; else the body of a clone is read
Response(c, s) ==
    /\ ~Resuming
    /\ call[c].pc = "fetch1"
    /\ call' = [call EXCEPT ![c] =
                  IF s # 401
                  THEN Finish([@ EXCEPT !.status1 = s], "resp1")
                  ELSE IF OnLoginPage(pathname)
                  THEN Finish([@ EXCEPT !.status1 = s, !.login1 = (pathname = "/login")],
                              "resp1")
                  ELSE [@ EXCEPT !.pc = "readBody", !.status1 = s,
                                 !.login1 = (pathname = "/login")]]
    /\ UNCHANGED <<isRefreshing, refreshPromise, promises, cookie, pathname,
                   href, policyLogouts, policyPhase, invalidSeen, otherVars>>

\* clonedResponse.text() rejects: caught at line 497, the 401 is returned
BodyError(c) ==
    /\ ~Resuming
    /\ call[c].pc = "readBody"
    /\ call' = [call EXCEPT ![c] = Finish([@ EXCEPT !.marker = "err"], "resp1")]
    /\ UNCHANGED <<isRefreshing, refreshPromise, promises, cookie, pathname,
                   href, policyLogouts, policyPhase, invalidSeen, otherVars>>

\* clonedResponse.text() resolves with Bodies[b]: without a marker the 401 is
\* returned, with one refreshToken() is called and awaited
BodyRead(c, b) ==
    /\ ~Resuming
    /\ call[c].pc = "readBody"
    /\ IF HasMarker(Bodies[b])
       THEN /\ CanRefresh
            /\ LET r == refreshToken(c)
               IN  /\ isRefreshing' = r.flag
                   /\ refreshPromise' = r.handle
                   /\ promises' = r.proms
                   /\ call' = [call EXCEPT ![c] =
                                 [@ EXCEPT !.pc = "awaitReactive",
                                           !.marker = MarkerIn(Bodies[b]),
                                           !.awaiting = r.id]]
       ELSE /\ call' = [call EXCEPT ![c] =
                          Finish([@ EXCEPT !.marker = MarkerIn(Bodies[b])], "resp1")]
            /\ UNCHANGED <<isRefreshing, refreshPromise, promises>>
    /\ UNCHANGED <<cookie, pathname, href, policyLogouts, policyPhase, invalidSeen, otherVars>>

\* the reactive await resumes: refreshed = true replays the request, false
\* returns the 401, a rejection is caught at line 497
ReactiveResume(c) ==
    /\ ~Resuming
    /\ call[c].pc = "awaitReactive"
    /\ Settled(promises[call[c].awaiting])
    /\ LET res == promises[call[c].awaiting].st
       IN  call' = [call EXCEPT ![c] =
                     IF Replays(res)
                     THEN [@ EXCEPT !.pc = "fetch2", !.refreshed = res, !.sent = 2,
                                    !.awaiting = 0]
                     ELSE Finish([@ EXCEPT !.refreshed = res], "resp1")]
    /\ promises' = Collect(c)
    /\ UNCHANGED <<isRefreshing, refreshPromise, cookie, pathname, href,
                   policyLogouts, policyPhase, invalidSeen, otherVars>>

\* the replay rejects: caught at line 497, response is still the first 401
ReplayError(c) ==
    /\ ~Resuming
    /\ call[c].pc = "fetch2"
    /\ call' = [call EXCEPT ![c] = Finish(@, "resp1")]
    /\ UNCHANGED <<isRefreshing, refreshPromise, promises, cookie, pathname,
                   href, policyLogouts, policyPhase, invalidSeen, otherVars>>

\* the replay is answered with status s: a 401 off the login page calls
\* /api/logout through the original function
ReplayResponse(c, s) ==
    /\ ~Resuming
    /\ call[c].pc = "fetch2"
    /\ call' = [call EXCEPT ![c] =
                  IF s # 401
                  THEN Finish([@ EXCEPT !.status2 = s], "resp2")
                  ELSE IF OnLoginPage(pathname)
                  THEN Finish([@ EXCEPT !.status2 = s, !.login2 = (pathname = "/login")],
                              "resp2")
                  ELSE [@ EXCEPT !.pc = "logout", !.status2 = s, !.termReplay = TRUE,
                                 !.login2 = (pathname = "/login")]]
    /\ UNCHANGED <<isRefreshing, refreshPromise, promises, cookie, pathname,
                   href, policyLogouts, policyPhase, otherVars>>
    /\ invalidSeen' = (invalidSeen \/ (s = 401 /\ call[c].refreshed = "true"))

\* the logout call of the replay path settles and the wrapper resumes:
\* clearAuthCookie in the catch, the redirect, and the replay's response is
\* returned
ReplayLogoutSettle(c, ok) ==
    /\ ~Resuming
    /\ call[c].pc = "logout"
    /\ cookie' = IF ClearsCookie(LogoutOutcome(ok)) THEN NullInfo ELSE cookie
    /\ href' = LoginHref(pathname)
    /\ call' = [call EXCEPT ![c] =
                  Finish([@ EXCEPT !.logout = IF ok THEN "resolved" ELSE "rejected"],
                         "resp2")]
    /\ UNCHANGED <<isRefreshing, refreshPromise, promises, pathname,
                   policyLogouts, policyPhase, invalidSeen, otherVars>>

\* the caller takes the result; the task is free for another call
Return(c) ==
    /\ ~Resuming
    /\ call[c].pc = "done"
    /\ call' = [call EXCEPT ![c] = IdleCall]
    /\ UNCHANGED <<isRefreshing, refreshPromise, promises, cookie, pathname,
                   href, policyLogouts, policyPhase, invalidSeen, otherVars>>

\* a logout call of shouldRefreshToken settles: when it was answered the
\* .catch passes the value on; when it rejected the .catch handler runs
\* clearAuthCookie
PolicyLogoutSettle(ok) ==
    /\ ~Resuming
    /\ policyLogouts > 0
    /\ policyLogouts' = policyLogouts - 1
    /\ policyPhase' = IF ok THEN "resolved" ELSE "rejected"
    /\ cookie' = IF ClearsCookie(LogoutOutcome(ok)) THEN NullInfo ELSE cookie
    /\ UNCHANGED <<isRefreshing, refreshPromise, promises, call, pathname, href,
                   invalidSeen, otherVars>>

\* .finally of the chain: the redirect
PolicyFinally ==
    /\ policyPhase # "none"
    /\ href' = LoginHref(pathname)
    /\ policyPhase' = "none"
    /\ UNCHANGED <<isRefreshing, refreshPromise, promises, call, cookie, pathname,
                   policyLogouts, invalidSeen, otherVars>>

\* the application changes the route
Navigate ==
    /\ ~Resuming
    /\ pathname' = IF pathname = "/login" THEN "/" ELSE "/login"
    /\ UNCHANGED <<isRefreshing, refreshPromise, promises, call, cookie, href,
                   policyLogouts, policyPhase, invalidSeen, otherVars>>

Next ==
    \/ \E c \in Callers, u \in UrlIds, now \in 1..MaxTime : Call(c, u, now)
    \/ \E c \in Callers : ProactiveResume(c)
    \/ \E c \in Callers : FetchError(c)
    \/ \E c \in Callers, s \in Statuses : DelegatedResponse(c, s)
    \/ \E c \in Callers, s \in Statuses : Response(c, s)
    \/ \E c \in Callers : BodyError(c)
    \/ \E c \in Callers, b \in BodyIds : BodyRead(c, b)
    \/ \E c \in Callers : ReactiveResume(c)
    \/ \E c \in Callers : ReplayError(c)
    \/ \E c \in Callers, s \in Statuses : ReplayResponse(c, s)
    \/ \E c \in Callers, ok \in BOOLEAN : ReplayLogoutSettle(c, ok)
    \/ \E c \in Callers : Return(c)
    \/ \E p \in PromiseIds, s \in RenewalStatuses : RenewalResponse(p, s)
    \/ \E p \in PromiseIds : RenewalNetworkError(p)
    \/ \E p \in PromiseIds, ok \in BOOLEAN : RenewalLogoutSettle(p, ok)
    \/ \E ok \in BOOLEAN : PolicyLogoutSettle(ok)
    \/ PolicyFinally
    \/ Navigate

Spec == Init /\ [][Next]_vars

(* ------------------------------ scheduling ----------------------------- *)

\* what task c awaits settles and the wrapper runs on to its next await or
\* to its return
Progress(c) ==
    \/ ProactiveResume(c)
    \/ FetchError(c)
    \/ \E s \in Statuses : DelegatedResponse(c, s)
    \/ \E s \in Statuses : Response(c, s)
    \/ BodyError(c)
    \/ \E b \in BodyIds : BodyRead(c, b)
    \/ ReactiveResume(c)
    \/ ReplayError(c)
    \/ \E s \in Statuses : ReplayResponse(c, s)
    \/ \E ok \in BOOLEAN : ReplayLogoutSettle(c, ok)

\* the network call the renewal p awaits settles
RenewalProgress(p) ==
    \/ \E s \in RenewalStatuses : RenewalResponse(p, s)
    \/ RenewalNetworkError(p)
    \/ \E ok \in BOOLEAN : RenewalLogoutSettle(p, ok)

\* Every network call settles and every continuation that can run does.
\* The callbacks of the policy's logout chain run before anything else, so
\* a continuation can be held back for a moment again and again: strong
\* fairness.
Fairness ==
    /\ \A c \in Callers : SF_vars(Progress(c))
    /\ \A p \in PromiseIds : SF_vars(RenewalProgress(p))
    /\ WF_vars(\E ok \in BOOLEAN : PolicyLogoutSettle(ok))
    /\ WF_vars(PolicyFinally)

\* Two tasks call the wrapper once each, at any moments and from either
\* page; the route does not change while the calls are out.
NextLive ==
    \/ \E c \in Callers, u \in UrlIds, now \in 1..MaxTime : Call(c, u, now)
    \/ \E c \in Callers : Progress(c)
    \/ \E p \in PromiseIds : RenewalProgress(p)
    \/ \E ok \in BOOLEAN : PolicyLogoutSettle(ok)
    \/ PolicyFinally

SpecLive == Init /\ [][NextLive]_vars /\ Fairness

(* ------------------- the expiry policy as a function ------------------- *)

\* Instants are epoch milliseconds the server issued, hence positive.
OptInstants == {<<>>} \cup {<<t>> : t \in 1..MaxInstant}
AuthInfos == {NullInfo} \cup {Info(ts, re) : ts \in OptInstants, re \in OptInstants}

InitPolicy ==
    /\ isRefreshing = FALSE
    /\ refreshPromise = 0
    /\ promises = [i \in PromiseIds |-> FreeSlot]
    /\ call = [c \in Callers |-> IdleCall]
    /\ cookie = NullInfo
    /\ pathname = "/"
    /\ href = <<>>
    /\ policyLogouts = 0
    /\ policyPhase = "none"
    /\ invalidSeen = FALSE
    /\ pInfo \in AuthInfos
    /\ pNow \in 1..MaxInstant
    /\ pOut = NoVerdict
    /\ InstalledInit
    /\ NothingParsed
    /\ ProviderMounted(FALSE)

\* shouldRefreshToken() on the record pInfo at Date.now() = pNow: what it
\* returns (the wrapper calls refreshToken() exactly when it is true) and
\* whether it started the logout chain
PolicyEvaluate ==
    /\ ~pOut.done
    /\ pOut' = [done |-> TRUE,
                due |-> ShouldRefreshToken(pInfo, pNow),
                term |-> RefreshExpired(pInfo, pNow)]
    /\ UNCHANGED <<mainVars, configVars, pInfo, pNow, installVars, parseVars>>

NextPolicy == PolicyEvaluate

SpecPolicy == InitPolicy /\ [][NextPolicy]_vars

(* ------------------- installing and restoring fetch ------------------- *)

\* what RUNTIME_CONFIG?.STORAGE_TYPE can hold: undefined, the empty string,
\* and the storage types of a deployment
StorageConfigs == {<<>>, <<"">>, <<"localstorage">>, <<"redis">>, <<"upstash">>, <<"kvrocks">>}

\* the functions window.fetch can hold: the browser's, the wrapper of line
\* 423, and a function some other script put there
Functions == {"native", "wrapper", "other"}

\* line 318: RUNTIME_CONFIG?.STORAGE_TYPE || 'localstorage'
StorageType(cfg) == IF cfg = <<>> \/ cfg[1] = "" THEN "localstorage" ELSE cfg[1]

\* line 319: the effect returns early in a localStorage session
Inert(cfg) == StorageType(cfg) = "localstorage"

RestoresNative(captured) == "native"

\* line 507: what the cleanup puts back
Restored(captured) == captured

InitInstall ==
    /\ isRefreshing = FALSE
    /\ refreshPromise = 0
    /\ promises = [i \in PromiseIds |-> FreeSlot]
    /\ call = [c \in Callers |-> IdleCall]
    /\ cookie = NullInfo
    /\ pathname = "/"
    /\ href = <<>>
    /\ policyLogouts = 0
    /\ policyPhase = "none"
    /\ invalidSeen = FALSE
    /\ pInfo = NullInfo /\ pNow = 1 /\ pOut = NoVerdict
    /\ NothingParsed
    /\ ProviderMounted(FALSE)
    /\ storageType \in StorageConfigs
    /\ windowFetch = "native"
    /\ originalFetch = "native"
    /\ effect = "none"
    /\ readType = <<>>
    /\ mounts = 0

\* the component mounts and its effect runs (lines 316-509)
Mount ==
    /\ effect = "none"
    /\ mounts < MaxMounts
    /\ mounts' = mounts + 1
    /\ readType' = storageType
    /\ IF Inert(storageType)
       THEN /\ effect' = "inert"
            /\ UNCHANGED <<windowFetch, originalFetch>>
       ELSE /\ effect' = "installed"
            /\ originalFetch' = windowFetch
            /\ windowFetch' = "wrapper"
    /\ UNCHANGED <<mainVars, configVars, policyVars, parseVars, storageType>>

\* the component unmounts: the cleanup of lines 506-508 runs if the effect
\* returned one
Unmount ==
    /\ effect # "none"
    /\ effect' = "none"
    /\ windowFetch' = IF effect = "installed" THEN Restored(originalFetch) ELSE windowFetch
    /\ UNCHANGED <<mainVars, configVars, policyVars, parseVars, storageType, originalFetch, readType, mounts>>

\* the page's configuration script sets RUNTIME_CONFIG
Configure(cfg) ==
    /\ storageType # cfg
    /\ storageType' = cfg
    /\ UNCHANGED <<mainVars, configVars, policyVars, parseVars, windowFetch, originalFetch, effect, readType,
                   mounts>>

\* another script replaces window.fetch by a function of its own
Patch ==
    /\ windowFetch # "other"
    /\ windowFetch' = "other"
    /\ UNCHANGED <<mainVars, configVars, policyVars, parseVars, storageType, originalFetch, effect, readType,
                   mounts>>

NextInstall ==
    \/ Mount
    \/ Unmount
    \/ \E cfg \in StorageConfigs : Configure(cfg)
    \/ Patch

SpecInstall == InitInstall /\ [][NextInstall]_vars

(* ----------------------------- parseAuthInfo --------------------------- *)

StartsWith(t, p) == Len(t) >= Len(p) /\ SubSeq(t, 1, Len(p)) = p
Drop(t, n) == SubSeq(t, n + 1, Len(t))
\* String.prototype.indexOf + 1
IndexOf(t, ch) ==
    IF \E i \in 1..Len(t) : t[i] = ch
    THEN CHOOSE i \in 1..Len(t) : t[i] = ch /\ \A j \in 1..(i - 1) : t[j] # ch
    ELSE 0

IsDigit(ch) == Ord(ch) >= 48 /\ Ord(ch) <= 57

\* a JSON number without sign, fraction and exponent
IsNumber(t) ==
    /\ t # <<>>
    /\ \A i \in 1..Len(t) : t[i] \notin {"ctl", "bsl", "grv"} /\ IsDigit(t[i])
    /\ Len(t) > 1 => t[1] # "0"

RECURSIVE NumberOf(_)
NumberOf(t) ==
    IF t = <<>> THEN 0
    ELSE 10 * NumberOf(SubSeq(t, 1, Len(t) - 1)) + (Ord(t[Len(t)]) - 48)

RECURSIVE DigitsOf(_)
DigitsOf(n) ==
    IF n < 10 THEN <<Chr(48 + n)>>
    ELSE DigitsOf(n \div 10) \o <<Chr(48 + (n % 10))>>

\* the inside of a JSON string that holds no escape: no quote, no backslash,
\* no control character
PlainText(v) == \A i \in 1..Len(v) : v[i] \notin {"\"", "bsl", "ctl"}

J_USERNAME == <<"{", "\"", "u", "s", "e", "r", "n", "a", "m", "e", "\"", ":", "\"">>
J_TIMESTAMP == <<"\"", ",", "\"", "t", "i", "m", "e", "s", "t", "a", "m", "p", "\"", ":">>
J_REFRESH == <<",", "\"", "r", "e", "f", "r", "e", "s", "h", "E", "x", "p", "i", "r", "e", "s", "\"", ":">>
J_NULL == <<"n", "u", "l", "l">>
J_TRUE == <<"t", "r", "u", "e">>
J_FALSE == <<"f", "a", "l", "s", "e">>

\* JSON.stringify of a credential record {username, timestamp, refreshExpires}
\* whose username needs no escape
Stringify(r) ==
    J_USERNAME \o r.username \o J_TIMESTAMP \o DigitsOf(r.timestamp)
    \o J_REFRESH \o DigitsOf(r.refreshExpires) \o <<"}">>

JsonError == [ok |-> FALSE, value |-> JsonNull]
JsonOk(v) == [ok |-> TRUE, value |-> v]

\* JSON.parse of the text of a credential record as Stringify writes it
ParseRecord(t) ==
    LET r1 == Drop(t, Len(J_USERNAME))
        q  == IndexOf(r1, "\"")
        v  == SubSeq(r1, 1, q - 1)
        r2 == Drop(r1, q - 1)
        r3 == Drop(r2, Len(J_TIMESTAMP))
        c  == IndexOf(r3, ",")
        n1 == SubSeq(r3, 1, c - 1)
        r4 == Drop(r3, c - 1)
        r5 == Drop(r4, Len(J_REFRESH))
        n2 == SubSeq(r5, 1, Len(r5) - 1)
    IN  IF q = 0 \/ ~PlainText(v) \/ ~StartsWith(r2, J_TIMESTAMP) THEN JsonError
        ELSE IF c = 0 \/ ~IsNumber(n1) \/ ~StartsWith(r4, J_REFRESH) THEN JsonError
        ELSE IF r5 = <<>> THEN JsonError
        ELSE IF r5[Len(r5)] # "}" \/ ~IsNumber(n2) THEN JsonError
        ELSE JsonOk(JsonObject(v, NumberOf(n1), NumberOf(n2)))

\* JSON.parse on the texts the inputs below decode to: a number, a literal,
\* a string without escapes, a credential record; ok = FALSE is the
\* SyntaxError of any other of those texts
ParseJSON(t) ==
    IF IsNumber(t) THEN JsonOk(JsonNumber(NumberOf(t)))
    ELSE IF t = J_NULL THEN JsonOk(JsonNull)
    ELSE IF t = J_TRUE THEN JsonOk(JsonTrue)
    ELSE IF t = J_FALSE THEN JsonOk(JsonFalse)
    ELSE IF Len(t) >= 2 /\ t[1] = "\"" /\ t[Len(t)] = "\""
    THEN (IF PlainText(SubSeq(t, 2, Len(t) - 1))
          THEN JsonOk(JsonString(SubSeq(t, 2, Len(t) - 1)))
          ELSE JsonError)
    ELSE IF StartsWith(t, J_USERNAME) THEN ParseRecord(t)
    ELSE JsonError

\* lines 49-51: the catch of the second decodeURIComponent
SecondCatch(value, first) == value

\* parseAuthInfo (lines 33-59)
ParseAuthInfo(input) ==
    IF input.kind # "string" \/ input.text = <<>> THEN JsonNull
    ELSE LET value   == input.text
             once    == DecodeURIComponent(value)
             first   == IF once.ok THEN once.text ELSE value
             twice   == DecodeURIComponent(first)
             decoded == IF Includes(first, <<"%">>)
                        THEN (IF twice.ok THEN twice.text ELSE SecondCatch(value, first))
                        ELSE first
             parsed  == ParseJSON(decoded)
         IN  IF parsed.ok THEN parsed.value ELSE JsonNull

\* what shouldRefreshToken sees of a value parseAuthInfo returned: a falsy
\* value is no credential; any other value that is not a record has no
\* timestamp and no refreshExpires
AsAuthInfo(v) ==
    IF v.kind = "object" THEN Info(<<v.timestamp>>, <<v.refreshExpires>>)
    ELSE IF v.kind \in {"null", "false"} THEN NullInfo
    ELSE IF v.kind = "number" /\ v.num = 0 THEN NullInfo
    ELSE IF v.kind = "string" /\ v.str = <<>> THEN NullInfo
    ELSE Info(<<>>, <<>>)

\* the characters of a username: a letter, the percent sign and two digits
NameChars == {"x", "%", "4", "1"}
RECURSIVE NamesUpTo(_)
NamesUpTo(n) ==
    IF n = 0 THEN {<<>>}
    ELSE NamesUpTo(n - 1) \cup {Append(v, ch) : v \in NamesUpTo(n - 1), ch \in NameChars}

\* credential records
Records == {JsonObject(v, 1, MaxInstant) : v \in NamesUpTo(MaxName)}

RECURSIVE EncodeTimes(_, _)
EncodeTimes(t, k) == IF k = 0 THEN t ELSE EncodeTimes(EncodeURIComponent(t), k - 1)

\* texts that are not the text of a credential record
OtherTexts == {
    <<>>,
    <<"x">>,
    <<"{">>,
    <<"%">>,
    <<"%", "7", "B">>,
    J_USERNAME \o <<"x">>,
    <<"4", "1">>,
    J_NULL,
    J_TRUE,
    <<"\"", "x", "\"">> }

InitParse ==
    /\ isRefreshing = FALSE
    /\ refreshPromise = 0
    /\ promises = [i \in PromiseIds |-> FreeSlot]
    /\ call = [c \in Callers |-> IdleCall]
    /\ cookie = NullInfo
    /\ pathname = "/"
    /\ href = <<>>
    /\ policyLogouts = 0
    /\ policyPhase = "none"
    /\ invalidSeen = FALSE
    /\ pInfo = NullInfo /\ pNow = 1 /\ pOut = NoVerdict
    /\ InstalledInit
    /\ ProviderMounted(FALSE)
    /\ parseOut = [done |-> FALSE, value |-> JsonNull]
    /\ \/ /\ parseRec \in Records
          /\ parseK \in 0..2
          /\ parseIn = StringInput(EncodeTimes(Stringify(parseRec), parseK))
       \/ /\ parseRec = JsonNull
          /\ parseK \in 0..2
          /\ parseIn \in {StringInput(EncodeTimes(t, parseK)) : t \in OtherTexts}
       \/ /\ parseRec = JsonNull
          /\ parseK = 0
          /\ parseIn \in {NoInput, [kind |-> "null", text |-> <<>>]}

\* parseAuthInfo(value) is called
Parse ==
    /\ ~parseOut.done
    /\ parseOut' = [done |-> TRUE, value |-> ParseAuthInfo(parseIn)]
    /\ UNCHANGED <<mainVars, configVars, policyVars, installVars, parseIn, parseRec, parseK>>

NextParse == Parse

SpecParse == InitParse /\ [][NextParse]_vars

(* ------------------- WatchRoomProvider: loading config ----------------- *)

ServerTypes == {"internal", "external"}

\* lines 258-260: the cleanup of effect run n calls watchRoom.disconnect()
Cleanup(rs, n) == [rs EXCEPT ![n].cleaned = TRUE]

\* lines 211-235: after setConfig, an enabled config imports the socket
\* manager and connects, a disabled one ends loadConfig()
Proceed(run) == [run EXCEPT !.pc = IF run.enabled THEN "import" ELSE "done"]

InitConfig ==
    /\ isRefreshing = FALSE
    /\ refreshPromise = 0
    /\ promises = [i \in PromiseIds |-> FreeSlot]
    /\ call = [c \in Callers |-> IdleCall]
    /\ cookie = NullInfo
    /\ pathname = "/"
    /\ href = <<>>
    /\ policyLogouts = 0
    /\ policyPhase = "none"
    /\ invalidSeen = FALSE
    /\ pInfo = NullInfo /\ pNow = 1 /\ pOut = NoVerdict
    /\ InstalledInit
    /\ parseIn = NoInput /\ parseRec = JsonNull /\ parseK = 0
    /\ parseOut = [done |-> FALSE, value |-> JsonNull]
    /\ \E c \in BOOLEAN : ProviderMounted(c)

\* the user logs in or out: the username of the auth cookie appears or goes
CookieChange ==
    /\ loggedInCookie' = ~loggedInCookie
    /\ UNCHANGED <<mainVars, policyVars, installVars, parseVars,
                   isLoggedIn, provider, effectRuns, runs>>

\* lines 122-137: checkLoginStatus() (at mount or on a tick of the interval)
\* has set isLoggedIn to a new value; the component renders again, the cleanup
\* of the last effect run calls watchRoom.disconnect() and the effect runs
\* again with the new isLoggedIn
CheckLoginStatus ==
    /\ provider = "mounted"
    /\ loggedInCookie # isLoggedIn
    /\ effectRuns < MaxRuns
    /\ isLoggedIn' = loggedInCookie
    /\ effectRuns' = effectRuns + 1
    /\ runs' = StartRun(Cleanup(runs, effectRuns), effectRuns + 1, loggedInCookie)
    /\ UNCHANGED <<mainVars, policyVars, installVars, parseVars, loggedInCookie, provider>>

\* the component unmounts: the cleanup of the last effect run
ProviderUnmount ==
    /\ provider = "mounted"
    /\ provider' = "unmounted"
    /\ runs' = Cleanup(runs, effectRuns)
    /\ UNCHANGED <<mainVars, policyVars, installVars, parseVars,
                   loggedInCookie, isLoggedIn, effectRuns>>

\* lines 174-175, 236-245: /api/server-config is answered; a response that
\* is not ok sets the default config and ends loadConfig()
ConfigResponse(r, ok) ==
    /\ runs[r].pc = "fetchConfig"
    /\ runs' = [runs EXCEPT ![r].pc = IF ok THEN "readConfig" ELSE "done"]
    /\ UNCHANGED <<mainVars, policyVars, installVars, parseVars,
                   loggedInCookie, isLoggedIn, provider, effectRuns>>

\* lines 176-209: response.json() resolves; an enabled external server asks
\* for /api/watch-room-auth when the isLoggedIn of the closure is true
ConfigRead(r, enabled, serverType) ==
    /\ runs[r].pc = "readConfig"
    /\ LET run == [runs[r] EXCEPT !.enabled = enabled, !.serverType = serverType]
       IN  runs' = [runs EXCEPT ![r] =
                      IF serverType = "external" /\ enabled /\ run.isLoggedIn
                      THEN [run EXCEPT !.pc = "fetchAuth"]
                      ELSE Proceed(run)]
    /\ UNCHANGED <<mainVars, policyVars, installVars, parseVars,
                   loggedInCookie, isLoggedIn, provider, effectRuns>>

\* lines 194-207: /api/watch-room-auth is answered ok, is answered with
\* another status, or rejects; the last two disable the watch room
AuthOutcomes == {"ok", "status", "rejected"}

AuthResponse(r, outcome) ==
    /\ runs[r].pc = "fetchAuth"
    /\ runs' = [runs EXCEPT ![r] =
                   IF outcome = "ok" THEN [@ EXCEPT !.pc = "readAuth"]
                   ELSE Proceed([@ EXCEPT !.enabled = FALSE])]
    /\ UNCHANGED <<mainVars, policyVars, installVars, parseVars,
                   loggedInCookie, isLoggedIn, provider, effectRuns>>

\* lines 196-197, 203-207: authResponse.json() resolves, or rejects and the
\* inner catch disables the watch room
AuthRead(r, ok) ==
    /\ runs[r].pc = "readAuth"
    /\ runs' = [runs EXCEPT ![r] =
                   IF ok THEN Proceed(@) ELSE Proceed([@ EXCEPT !.enabled = FALSE])]
    /\ UNCHANGED <<mainVars, policyVars, installVars, parseVars,
                   loggedInCookie, isLoggedIn, provider, effectRuns>>

\* lines 219-231: the import resolves, the reconnect callbacks are set and
\* watchRoom.connect(watchRoomConfig) is called
Imported(r) ==
    /\ runs[r].pc = "import"
    /\ runs' = [runs EXCEPT ![r] =
                   [@ EXCEPT !.pc = "connecting", !.connects = @ + 1,
                             !.late = runs[r].cleaned]]
    /\ UNCHANGED <<mainVars, policyVars, installVars, parseVars,
                   loggedInCookie, isLoggedIn, provider, effectRuns>>

\* line 231: watchRoom.connect resolves
Connected(r) ==
    /\ runs[r].pc = "connecting"
    /\ runs' = [runs EXCEPT ![r].pc = "done"]
    /\ UNCHANGED <<mainVars, policyVars, installVars, parseVars,
                   loggedInCookie, isLoggedIn, provider, effectRuns>>

\* lines 246-255: the config request, the reading of its body, the import or
\* the connect rejects; the outer catch sets the default config
ConfigError(r) ==
    /\ runs[r].pc \in {"fetchConfig", "readConfig", "import", "connecting"}
    /\ runs' = [runs EXCEPT ![r].pc = "done"]
    /\ UNCHANGED <<mainVars, policyVars, installVars, parseVars,
                   loggedInCookie, isLoggedIn, provider, effectRuns>>

NextConfig ==
    \/ CookieChange
    \/ CheckLoginStatus
    \/ ProviderUnmount
    \/ \E r \in 1..MaxRuns, ok \in BOOLEAN : ConfigResponse(r, ok)
    \/ \E r \in 1..MaxRuns, en \in BOOLEAN, st \in ServerTypes : ConfigRead(r, en, st)
    \/ \E r \in 1..MaxRuns, o \in AuthOutcomes : AuthResponse(r, o)
    \/ \E r \in 1..MaxRuns, ok \in BOOLEAN : AuthRead(r, ok)
    \/ \E r \in 1..MaxRuns : Imported(r)
    \/ \E r \in 1..MaxRuns : Connected(r)
    \/ \E r \in 1..MaxRuns : ConfigError(r)

SpecConfig == InitConfig /\ [][NextConfig]_vars

(* ------------------------------- claims -------------------------------- *)

PendingIds == {p \in PromiseIds : Pending(promises[p])}

\* C1: in every reachable state at most one renewal network call
\* (POST /api/auth/refresh) is outstanding, however wrapped-fetch calls and
\* their refreshToken() calls interleave.
C1_OneRenewalOutstanding ==
    Cardinality({p \in PromiseIds : promises[p].st = "fetching"}) <= 1

\* C1 witness: a task has joined the renewal another task started and the
\* renewal call is still outstanding.
C1_Witness ==
    \E c \in Callers, p \in PromiseIds :
        /\ promises[p].st = "fetching"
        /\ call[c].awaiting = p
        /\ promises[p].by # c

\* the tasks that found renewal due and wait for a renewal still pending
DueWaiters ==
    {c \in Callers : call[c].pc = "awaitProactive"
                     /\ Pending(promises[call[c].awaiting])}

\* C2: any number of concurrent wrapped-fetch calls that each found renewal
\* due while a renewal is pending wait for one and the same promise, for
\* which one renewal call was issued by one starter; the promise settles to
\* one Boolean, which is the outcome each of them observes.
C2_ConcurrentDueCallsShareOneRenewal ==
    /\ Cardinality({call[c].awaiting : c \in DueWaiters}) <= 1
    /\ Cardinality({c \in DueWaiters : promises[call[c].awaiting].by = c}) <= 1
    /\ DueWaiters # {} => Cardinality(PendingIds) = 1
    /\ \A c \in Callers :
          call[c].pc = "awaitProactive" /\ Settled(promises[call[c].awaiting])
              => promises[call[c].awaiting].st \in {"true", "false"}

\* C2 witness: both tasks found renewal due and wait for the same pending
\* renewal.
C2_Witness ==
    /\ Cardinality(DueWaiters) >= 2
    /\ \A c, d \in DueWaiters : call[c].awaiting = call[d].awaiting

C3_Cleared ==
    /\ PendingIds = {} => isRefreshing = FALSE /\ refreshPromise = 0
    /\ \A c \in Callers :
          call[c].awaiting # 0 /\ Settled(promises[call[c].awaiting])
              => refreshPromise # call[c].awaiting

C3_FreshStart ==
    \A c \in Callers :
        (PendingIds = {} /\ call[c].awaiting = 0 /\ call'[c].awaiting # 0)
            => /\ promises[call'[c].awaiting].st = "free"
               /\ promises'[call'[c].awaiting].st = "fetching"
               /\ promises'[call'[c].awaiting].by = c

\* C3: once a renewal has settled, with true or with false, the flag and
\* the handle are clear before any task waiting for it resumes, and a
\* refreshToken() call made when no renewal is pending starts a renewal call
\* of its own instead of being handed a settled promise.
C3_SettledRenewalIsCleared == []C3_Cleared /\ [][C3_FreshStart]_vars

\* C3 witness: a renewal has failed and a task has not yet resumed from it,
\* while another task's refreshToken() has started a fresh renewal call.
C3_Witness ==
    \E c, d \in Callers :
        /\ c # d
        /\ call[c].awaiting # 0
        /\ promises[call[c].awaiting].st = "false"
        /\ call[d].awaiting # 0
        /\ promises[call[d].awaiting].st = "fetching"
        /\ promises[call[d].awaiting].by = d

\* C4: a call whose url contains an excluded fragment invokes the original
\* function once and returns its response (or its error) as it is; it never
\* consults the expiry policy, never calls refreshToken() and never starts
\* Session Termination, whatever the cookie and the status.
C4_ExcludedCallsAreDelegated ==
    \A c \in Callers :
        call[c].skipUrl =>
            /\ call[c].pc \in {"delegated", "done"}
            /\ call[c].sent = 1
            /\ ~call[c].consulted
            /\ call[c].awaiting = 0
            /\ call[c].marker = "none"
            /\ call[c].refreshed = "none"
            /\ ~call[c].polTerm
            /\ ~call[c].termReplay
            /\ call[c].status2 = 0
            /\ call[c].pc = "done" => call[c].ret \in {"resp1", "error"}

\* C4 witness: an excluded call was answered 401 off the login page while the
\* cookie held a complete record, and has returned.
C4_Witness ==
    \E c \in Callers :
        /\ call[c].skipUrl
        /\ call[c].pc = "done"
        /\ call[c].status1 = 401
        /\ call[c].ret = "resp1"
        /\ cookie = CompleteInfo
        /\ pathname # "/login"

\* C5: a call to a url that is not excluded invokes the original function
\* for its request at most twice; the second time happens exactly when the
\* first response was a 401 off the login page with a recognized marker and
\* the renewal returned true; when the renewal returned false the first 401
\* is returned and nothing is replayed.
C5_AtMostOneReplay ==
    \A c \in Callers :
        (~call[c].skipUrl /\ call[c].pc # "idle") =>
            /\ call[c].sent <= 2
            /\ call[c].sent = 2 <=>
                  /\ call[c].status1 = 401
                  /\ ~call[c].login1
                  /\ call[c].marker = "yes"
                  /\ call[c].refreshed = "true"
            /\ call[c].refreshed = "false" =>
                  /\ call[c].pc = "done"
                  /\ call[c].ret = "resp1"
                  /\ call[c].sent = 1

\* C5 witness: a call was replayed and has returned the replay's response.
C5_Witness ==
    \E c \in Callers :
        /\ call[c].pc = "done"
        /\ call[c].sent = 2
        /\ call[c].ret = "resp2"

\* Session Terminations started in task c's call by the expiry policy and
\* by the replay handling
TermCount(c) ==
    (IF call[c].polTerm THEN 1 ELSE 0) + (IF call[c].termReplay THEN 1 ELSE 0)

\* C6: off the login page, a 401 with a recognized marker followed by a
\* successful renewal is replayed once; if the replay is a 401 too, Session
\* Termination fires exactly once for that call and the replay's response is
\* returned.
C6_ReplayThenOneTermination ==
    \A c \in Callers :
        (/\ call[c].pc = "done"
         /\ call[c].status1 = 401
         /\ ~call[c].login1
         /\ call[c].marker = "yes"
         /\ call[c].refreshed = "true") =>
            /\ call[c].sent = 2
            /\ (call[c].status2 = 401 /\ ~call[c].login2) =>
                  /\ TermCount(c) = 1
                  /\ call[c].ret = "resp2"

\* C7: a 401 to a url that is not excluded whose body holds none of the
\* markers is returned as it is: refreshToken() is not called for it, the
\* request is not replayed and no Session Termination is started for it.
C7_UnrecognizedUnauthorizedPassesThrough ==
    \A c \in Callers :
        (~call[c].skipUrl /\ call[c].status1 = 401 /\ call[c].marker = "no") =>
            /\ call[c].pc = "done"
            /\ call[c].ret = "resp1"
            /\ call[c].sent = 1
            /\ call[c].awaiting = 0
            /\ call[c].refreshed = "none"
            /\ call[c].status2 = 0
            /\ ~call[c].termReplay

\* C7 witness: a 401 without a marker was read off the login page and
\* returned.
C7_Witness ==
    \E c \in Callers :
        /\ call[c].pc = "done"
        /\ call[c].status1 = 401
        /\ ~call[c].login1
        /\ call[c].marker = "no"

\* C8: a call to a url that is not excluded, made with a complete record
\* whose refreshExpires is at or before now, starts Session Termination and
\* makes no renewal network call during that call.
C8_ExpiredRefreshMakesNoRenewalCall ==
    \A c \in Callers :
        call[c].expired =>
            /\ call[c].polTerm
            /\ ~\E p \in PromiseIds : Pending(promises[p]) /\ promises[p].by = c

\* C9: shouldRefreshToken() is true exactly for a record with both fields,
\* now < refreshExpires and ACCESS_TOKEN_AGE - (now - timestamp) below
\* RENEWAL_THRESHOLD; it is false whenever now < timestamp + ACCESS_TOKEN_AGE
\* - RENEWAL_THRESHOLD; a record that is absent or lacks a field gives false
\* and starts neither a renewal nor Session Termination.
C9_PolicyDecision ==
    pOut.done =>
        LET complete == /\ pInfo.present
                        /\ pInfo.timestamp # <<>>
                        /\ pInfo.refreshExpires # <<>>
        IN  /\ pOut.due <=>
                  /\ complete
                  /\ pNow < pInfo.refreshExpires[1]
                  /\ ACCESS_TOKEN_AGE - (pNow - pInfo.timestamp[1]) < RENEWAL_THRESHOLD
            /\ (complete /\ pNow < pInfo.timestamp[1] + ACCESS_TOKEN_AGE - RENEWAL_THRESHOLD)
                  => ~pOut.due
            /\ ~complete => (~pOut.due /\ ~pOut.term)

\* C9 witness: the policy found renewal due.
C9_Witness == pOut.done /\ pOut.due

\* C10: the promise of refreshToken() never rejects and settles to true
\* exactly when the renewal response is ok; a 401 or 403 starts Session
\* Termination unless the page is the login page, and gives false; any other
\* failing status and a network error give false without Session
\* Termination.
C10_RenewalOutcome ==
    \A p \in PromiseIds :
        LET r == promises[p]
        IN  /\ r.st # "rejected"
            /\ r.st = "true" => ResponseOk(r.status)
            /\ (Settled(r) /\ ResponseOk(r.status)) => r.st = "true"
            /\ (r.st \notin {"free", "fetching"} /\ r.status \in {401, 403})
                  => r.term = (IF r.onLogin THEN "skipped" ELSE "fired")
            /\ r.status \notin {401, 403} => r.term = "no"
            /\ r.st = "logout" => r.term = "fired"

\* C10 witness: a renewal answered 403 off the login page has logged out,
\* redirected and settled to false.
C10_Witness ==
    \E p \in PromiseIds :
        /\ promises[p].st = "false"
        /\ promises[p].status = 403
        /\ promises[p].term = "fired"
        /\ href = LoginHref("/")


\* the logout calls that are outstanding
LogoutCalls ==
    policyLogouts
    + Cardinality({p \in PromiseIds : promises[p].st = "logout"})
    + Cardinality({c \in Callers : call[c].pc = "logout"})

C11_RedirectAfterCondition == href # <<>> => invalidSeen

C11_Step ==
    /\ policyLogouts' > policyLogouts =>
          \E c \in Callers : call[c].pc = "idle" /\ call'[c].expired
    /\ \A p \in PromiseIds :
          (promises'[p].st = "logout" /\ promises[p].st # "logout") =>
              promises[p].st = "fetching" /\ promises'[p].status \in {401, 403}
    /\ \A c \in Callers :
          (call'[c].pc = "logout" /\ call[c].pc # "logout") =>
              /\ call[c].pc = "fetch2"
              /\ call[c].refreshed = "true"
              /\ call'[c].status2 = 401
    /\ href' # href =>
          \/ policyPhase # "none"
          \/ \E p \in PromiseIds : promises[p].st = "logout" /\ promises'[p].st = "false"
          \/ \E c \in Callers : call[c].pc = "logout" /\ call'[c].pc = "done"
    /\ LogoutCalls' > LogoutCalls => invalidSeen'

\* C11: a redirect to the login page is performed only after the expiry
\* policy saw now >= refreshExpires, the renewal endpoint answered 401 or
\* 403, or a replay after a successful renewal was answered 401: a logout
\* call is issued only in the step that observes one of these, and
\* window.location.href is assigned only when such a logout call has
\* settled.  Other statuses, a 401 without a marker, a renewal network error
\* and a renewal answer other than 401 and 403 start neither.
C11_RedirectOnlyWhenSessionInvalid ==
    []C11_RedirectAfterCondition /\ [][C11_Step]_vars

\* C11 witness: a replay after a successful renewal was answered 401 off the
\* login page, the logout call has settled and the page was redirected.
C11_Witness ==
    /\ href # <<>>
    /\ invalidSeen
    /\ \E c \in Callers :
          /\ call[c].pc = "done"
          /\ call[c].refreshed = "true"
          /\ call[c].status2 = 401
          /\ call[c].logout # "none"
          /\ ~call[c].polTerm

\* the return target of a login url: what its redirect parameter decodes to
ReturnTarget(url) ==
    DecodeURIComponent(SubSeq(url, Len(LOGIN_REDIRECT) + 1, Len(url))).text

\* the step redirects to /login with the current path as return target
RedirectsToLogin ==
    /\ SubSeq(href', 1, Len(LOGIN_REDIRECT)) = LOGIN_REDIRECT
    /\ ReturnTarget(href') = PathText(pathname)

\* the step clears the cookie exactly when the logout call was rejected
ClearsIffRejected(outcome) ==
    /\ outcome \in {"resolved", "rejected"}
    /\ cookie' = IF outcome = "rejected" THEN NullInfo ELSE cookie

C12_Step ==
    \* refreshToken: the logout call settles, then the clear, then the redirect
    /\ \A p \in PromiseIds :
          (promises[p].st = "logout" /\ promises'[p].st # "logout") =>
              /\ ClearsIffRejected(promises'[p].logout)
              /\ RedirectsToLogin
    \* the wrapper after a replay
    /\ \A c \in Callers :
          (call[c].pc = "logout" /\ call'[c].pc # "logout") =>
              /\ ClearsIffRejected(call'[c].logout)
              /\ RedirectsToLogin
    \* shouldRefreshToken: the logout call settles and .catch runs, no redirect yet
    /\ policyLogouts' < policyLogouts =>
          /\ policyPhase = "none"
          /\ ClearsIffRejected(policyPhase')
          /\ href' = href
    \* then .finally redirects, whatever the outcome was
    /\ policyPhase # "none" =>
          /\ policyPhase' = "none"
          /\ cookie' = cookie
          /\ RedirectsToLogin
    \* nothing is cleared and nothing is redirected before a logout call that
    \* was issued has settled
    /\ (cookie' = NullInfo /\ cookie # NullInfo) \/ href' # href =>
          \/ policyLogouts' < policyLogouts
          \/ policyPhase # "none"
          \/ \E p \in PromiseIds : promises[p].st = "logout" /\ promises'[p].st # "logout"
          \/ \E c \in Callers : call[c].pc = "logout" /\ call'[c].pc # "logout"

\* C12: on each of its three paths Session Termination issues the logout
\* call first; when that call has settled, clearAuthCookie runs exactly when
\* the call was rejected, and then, whatever the outcome, the page is
\* redirected to /login with the current path as return target.
C12_TerminationSequence == [][C12_Step]_vars

\* C12 witness: the logout call of the expiry policy was rejected, the cookie
\* has been cleared and the redirect has not been done yet.
C12_Witness ==
    /\ policyPhase = "rejected"
    /\ cookie = NullInfo
    /\ href = <<>>

\* the STORAGE_TYPE read names a localStorage session or is not set
LocalOrUnset(cfg) == cfg = <<>> \/ cfg = <<"localstorage">>

C13_WrapperOnlyWhileInstalled ==
    windowFetch = "wrapper" => (effect = "installed" /\ ~LocalOrUnset(readType))

C13_Step ==
    /\ (effect = "none" /\ effect' # "none" /\ LocalOrUnset(readType')) =>
          windowFetch' = windowFetch
    /\ (effect = "installed" /\ effect' = "none") =>
          windowFetch' = originalFetch

\* C13: window.fetch is the wrapper only from an effect run that read a
\* STORAGE_TYPE other than 'localstorage' until that run's cleanup; an effect
\* run that reads 'localstorage' or nothing leaves window.fetch as it is, and
\* the cleanup puts back exactly the function the run captured.
C13_InstallAndRestore == []C13_WrapperOnlyWhileInstalled /\ [][C13_Step]_vars

\* C13 witness: the wrapper was installed over a function another script had
\* put there, and the cleanup has put that function back.
C13_Witness ==
    /\ effect = "none"
    /\ mounts > 0
    /\ ~LocalOrUnset(readType)
    /\ originalFetch = "other"
    /\ windowFetch = "other"

\* C14: for every credential record r, among them records whose username
\* holds a percent sign, and every k in 0..2, parseAuthInfo of the JSON text
\* of r percent-encoded k times returns a record equal to r.
C14_RoundTrip ==
    (parseOut.done /\ parseRec # JsonNull) => parseOut.value = parseRec

\* C15: parseAuthInfo raises nothing; it returns null for null, undefined
\* and the empty string, and for every input that does not decode to a
\* well-formed credential record, so that shouldRefreshToken gives false
\* and starts nothing for a corrupted credential as for an absent one.
C15_CorruptedReadsAsAbsent ==
    parseOut.done =>
        /\ (parseIn.kind # "string" \/ parseIn.text = <<>>) => parseOut.value = JsonNull
        /\ parseRec = JsonNull =>
              /\ parseOut.value = JsonNull
              /\ \A now \in 1..MaxInstant :
                    /\ ~ShouldRefreshToken(AsAuthInfo(parseOut.value), now)
                    /\ ~RefreshExpired(AsAuthInfo(parseOut.value), now)

\* C16: a call that found renewal due does not send its request while it
\* awaits the renewal; it leaves the await only when the renewal it awaits
\* has returned true or false, and then the request is sent, once, whichever
\* of the two it returned.
C16_NotSentWhileAwaiting ==
    \A c \in Callers :
        call[c].pc = "awaitProactive" =>
            /\ call[c].sent = 0
            /\ call[c].awaiting # 0
            /\ promises[call[c].awaiting].st # "free"

C16_Step ==
    \A c \in Callers :
        (call[c].pc = "awaitProactive" /\ call'[c] # call[c]) =>
            /\ promises[call[c].awaiting].st \in {"true", "false"}
            /\ call'[c].pc = "fetch1"
            /\ call'[c].sent = 1

C16_ProactiveSendsAfterRenewal == []C16_NotSentWhileAwaiting /\ [][C16_Step]_vars

\* One call awaits on the proactive path a renewal that the other call
\* started; the renewal has returned false and the request of the awaiting
\* call has not left, while the other call has resumed and its request is
\* out, sent once.
C16_Witness ==
    \E c, d \in Callers :
        /\ c # d
        /\ call[c].pc = "awaitProactive"
        /\ call[c].sent = 0
        /\ promises[call[c].awaiting].st = "false"
        /\ promises[call[c].awaiting].by = d
        /\ call[d].pc = "fetch1"
        /\ call[d].sent = 1

\* C17: provided every network call settles, every call of the wrapper
\* that has started comes to its return (a response or the error of the
\* original function), whatever the responses and the renewal outcomes
\* are, and also when it awaits a renewal that another call started.
C17_EveryCallReturns ==
    \A c \in Callers : (call[c].pc \notin {"idle", "done"}) ~> (call[c].pc = "done")

\* One call has returned after a replay that was answered 401 and the
\* termination that followed, the other after a renewal it did not start.
C17_Witness ==
    \E c, d \in Callers :
        /\ c # d
        /\ call[c].pc = "done"
        /\ call[c].termReplay
        /\ call[d].pc = "done"
        /\ call[d].refreshed # "none"
        /\ \A p \in PromiseIds : promises[p].by # d

\* C18: a call that is not on the skip list and whose request is answered
\* 401 while the page is the login page returns that response as it is: the
\* body is not read, refreshToken() is not called, the request is not sent
\* again and no termination follows from it.
C18_Returned ==
    \A c \in Callers :
        (call[c].status1 = 401 /\ call[c].login1) =>
            /\ call[c].pc = "done"
            /\ call[c].ret = "resp1"
            /\ call[c].marker = "none"
            /\ call[c].refreshed = "none"
            /\ call[c].sent = 1
            /\ ~call[c].termReplay
            /\ call[c].logout = "none"

C18_Step ==
    \A c \in Callers :
        (call[c].pc = "fetch1" /\ call'[c].status1 = 401 /\ pathname = "/login") =>
            /\ call'[c].pc = "done"
            /\ UNCHANGED <<isRefreshing, refreshPromise, promises, cookie, href,
                           policyLogouts, policyPhase>>

C18_LoginPage401Unmodified == []C18_Returned /\ [][C18_Step]_vars

\* A call to /api/favorites made on the login page was answered 401 and has
\* returned that response.
C18_Witness ==
    \E c \in Callers :
        /\ call[c].pc = "done"
        /\ call[c].consulted
        /\ ~call[c].skipUrl
        /\ call[c].status1 = 401
        /\ call[c].login1
        /\ call[c].ret = "resp1"
        /\ pathname = "/login"

\* C19: while the page is the login page no path of the interceptor starts
\* a termination: in a step taken on /login no logout call is issued, by
\* the expiry policy, by the renewal or by the replay handling, whatever
\* the credential is, and so no redirect follows from that page.
C19_Step ==
    pathname = "/login" =>
        /\ policyLogouts' <= policyLogouts
        /\ \A p \in PromiseIds : promises'[p].st = "logout" => promises[p].st = "logout"
        /\ \A c \in Callers : call'[c].pc = "logout" => call[c].pc = "logout"

C19_NoTerminationOnLoginPage == [][C19_Step]_vars

\* C20: in every state another task can observe, isRefreshing is true
\* exactly when refreshPromise is not null, and both hold exactly while a
\* renewal that refreshToken() started has not settled; the handle is then
\* the promise of that renewal.
C20_FlagAndHandleAgree ==
    /\ isRefreshing <=> refreshPromise # 0
    /\ isRefreshing <=> \E p \in PromiseIds : promises[p].st \in {"fetching", "logout"}
    /\ \A p \in PromiseIds :
          promises[p].st \in {"fetching", "logout"} => refreshPromise = p

\* A renewal has returned true and the task that awaits it has not resumed
\* yet: the flag and the handle are both clear already.
C20_Witness ==
    /\ ~isRefreshing
    /\ refreshPromise = 0
    /\ \E c \in Callers :
          /\ call[c].pc = "awaitReactive"
          /\ promises[call[c].awaiting].st = "true"
          /\ promises[call[c].awaiting].by = c

\* C21: once the cleanup of a run of the config-loading effect has called
\* watchRoom.disconnect(), on a change of isLoggedIn or on unmount, the
\* loadConfig() that run started calls watchRoom.connect no more.
C21_NoConnectAfterDisconnect ==
    \A r \in 1..MaxRuns : ~runs[r].late

====
